---------------------------- MODULE Spec2Model ----------------------------
(***************************************************************************)
(* A model of two units of the repository:                                 *)
(*   - sphinx_exts/docs_build/spelling_checks.py: the SpellingError        *)
(*     record with its equality and ordering, parse_spelling_warnings,     *)
(*     display_spelling_error_summary and _display_error;                  *)
(*   - providers/microsoft/azure/operators/cosmos.py:                      *)
(*     AzureCosmosInsertDocumentOperator.execute.                          *)
(*                                                                         *)
(* Text is modelled as a sequence of one-character strings, so that the    *)
(* regular expression, str.splitlines, int() and the path operations act   *)
(* on characters as the Python code does.  An Optional value is <<>> for   *)
(* None and <<x>> for a present x.                                         *)
(***************************************************************************)
EXTENDS Integers, Sequences, FiniteSets, TLC

VARIABLES
    \* parse_spelling_warnings
    warning_text,            \* argument: the text to parse
    docs_dir,                \* argument: the base directory (a Path)
    split_lines,             \* warning_text.splitlines(), what the for loop iterates
    line_idx,                \* position of the for loop in split_lines
    sphinx_spelling_errors,  \* the list being built / returned
    parse_pc,                \* "call" | "loop" | "returned"
    \* SpellingError.__eq__ / __lt__
    rec_a, rec_b,            \* the two operands
    cmp_pc,                  \* "args" | "compared"
    cmp_eq, cmp_lt, cmp_gt,  \* a == b, a < b, b < a
    \* display_spelling_error_summary / _display_error
    spelling_errors,         \* argument: category -> list of SpellingError
    existing_files,          \* the paths for which os.path.isfile is true
    disp_pc,                 \* "call" | "category" | "errors" | "returned"
    disp_todo,               \* sorted items not yet begun
    disp_errors,             \* sorted errors of the current category not yet shown
    disp_no,                 \* warning_no of the enumerate
    console_out,             \* what was printed, as a sequence of events
    \* AzureCosmosInsertDocumentOperator.execute
    databases,               \* the store: existing database names
    collections,             \* the store: existing <<database, collection>>
    documents,               \* the store: upserted <<database, collection, document>>
    op_args,                 \* per run: database_name, collection_name, document
    run_pc,                  \* per run: position in execute
    run_calls,               \* per run: the hook calls made, in order
    run_seen,                \* per run: what the existence checks answered
    store_log                \* every state-changing hook call, in global order

parse_vars ==
    <<warning_text, docs_dir, split_lines, line_idx, sphinx_spelling_errors, parse_pc>>
cmp_vars == <<rec_a, rec_b, cmp_pc, cmp_eq, cmp_lt, cmp_gt>>
disp_vars == <<spelling_errors, existing_files, disp_pc, disp_todo, disp_errors,
               disp_no, console_out>>
cosmos_vars == <<databases, collections, documents, op_args, run_pc, run_calls,
                 run_seen, store_log>>
vars == <<parse_vars, cmp_vars, disp_vars, cosmos_vars>>

\* what a step of one unit leaves alone: the state of the other units
ParseFrame == UNCHANGED <<cmp_vars, disp_vars, cosmos_vars>>
CmpFrame == UNCHANGED <<parse_vars, disp_vars, cosmos_vars>>
DispFrame == UNCHANGED <<parse_vars, cmp_vars, cosmos_vars>>
CosmosFrame == UNCHANGED <<parse_vars, cmp_vars, disp_vars>>

-----------------------------------------------------------------------------
(* Characters and strings *)

\* The characters used, in code point order.
Alphabet ==
    <<"\t", "\n", "\r", " ", "(", ")", ".", "/", "0", "1", ":", "<", ">",
      "N", "_", "a", "c", "e", "k", "n", "o", "s", "t", "u", "w", "x">>

Ord(c) == CHOOSE i \in 1..Len(Alphabet) : Alphabet[i] = c

\* \w of the re module
IsDigit(c) == c \in {"0", "1"}
IsWord(c) ==
    c \in {"0", "1", "N", "_", "a", "c", "e", "k", "n", "o", "s", "t", "u", "w", "x"}
\* \s of the re module
IsSpace(c) == c \in {"\t", "\n", "\r", " "}

None == <<>>
Some(x) == <<x>>

\* Python's < on two str: lexicographic by code point, a proper prefix is less.
RECURSIVE StrLt(_, _)
StrLt(a, b) ==
    IF b = <<>> THEN FALSE
    ELSE IF a = <<>> THEN TRUE
    ELSE IF a[1] # b[1] THEN Ord(a[1]) < Ord(b[1])
    ELSE StrLt(Tail(a), Tail(b))

\* str.endswith
EndsWith(s, suffix) ==
    /\ Len(s) >= Len(suffix)
    /\ SubSeq(s, Len(s) - Len(suffix) + 1, Len(s)) = suffix

\* str.splitlines(): cut at "\n", "\r" and "\r\n", terminators dropped, no
\* empty last line after a final terminator.
RECURSIVE SplitAcc(_, _, _, _)
SplitAcc(t, i, cur, acc) ==
    IF i > Len(t) THEN (IF cur = <<>> THEN acc ELSE Append(acc, cur))
    ELSE IF t[i] = "\r" /\ i < Len(t) /\ t[i + 1] = "\n"
        THEN SplitAcc(t, i + 2, <<>>, Append(acc, cur))
    ELSE IF t[i] \in {"\n", "\r"}
        THEN SplitAcc(t, i + 1, <<>>, Append(acc, cur))
    ELSE SplitAcc(t, i + 1, Append(cur, t[i]), acc)

SplitLines(t) == SplitAcc(t, 1, <<>>, <<>>)

\* int(s) for a str of \w characters: decimal digits, single underscores
\* allowed between digits; anything else raises ValueError.
IntOk(s) ==
    /\ s # <<>>
    /\ \A i \in 1..Len(s) : IsDigit(s[i]) \/ s[i] = "_"
    /\ IsDigit(s[1]) /\ IsDigit(s[Len(s)])
    /\ \A i \in 1..(Len(s) - 1) : ~(s[i] = "_" /\ s[i + 1] = "_")

DigitVal(c) == IF c = "1" THEN 1 ELSE 0

RECURSIVE IntAcc(_, _)
IntAcc(s, n) ==
    IF s = <<>> THEN n
    ELSE IF s[1] = "_" THEN IntAcc(Tail(s), n)
    ELSE IntAcc(Tail(s), 10 * n + DigitVal(s[1]))

IntVal(s) == IntAcc(s, 0)

-----------------------------------------------------------------------------
(* pathlib: a Path is modelled by str(path) *)

\* str.split("/")
RECURSIVE SepAcc(_, _, _)
SepAcc(s, cur, acc) ==
    IF s = <<>> THEN Append(acc, cur)
    ELSE IF s[1] = "/" THEN SepAcc(Tail(s), <<>>, Append(acc, cur))
    ELSE SepAcc(Tail(s), Append(cur, s[1]), acc)

SplitSep(s) == SepAcc(s, <<>>, <<>>)

RECURSIVE JoinSep(_)
JoinSep(parts) ==
    IF parts = <<>> THEN <<>>
    ELSE IF Len(parts) = 1 THEN parts[1]
    ELSE parts[1] \o <<"/">> \o JoinSep(Tail(parts))

RECURSIVE LeadingSlashes(_)
LeadingSlashes(s) ==
    IF s # <<>> /\ s[1] = "/" THEN 1 + LeadingSlashes(Tail(s)) ELSE 0

IsPart(p) == p # <<>> /\ p # <<".">>

\* Path(s): the root is kept ("//" is its own root), empty and "." parts
\* are dropped, the empty path is ".".
PathOf(s) ==
    LET n == LeadingSlashes(s)
        root == IF n = 0 THEN <<>> ELSE IF n = 2 THEN <<"/", "/">> ELSE <<"/">>
        parts == SelectSeq(SplitSep(s), IsPart)
    IN  IF root = <<>> /\ parts = <<>> THEN <<".">> ELSE root \o JoinSep(parts)

\* docs_dir / segment
PathJoin(dir, seg) ==
    IF seg # <<>> /\ seg[1] = "/" THEN PathOf(seg)
    ELSE IF dir[Len(dir)] = "/" THEN PathOf(dir \o seg)
    ELSE PathOf(dir \o <<"/">> \o seg)

\* Python's < on two lists of str
RECURSIVE PartsLt(_, _)
PartsLt(a, b) ==
    IF b = <<>> THEN FALSE
    ELSE IF a = <<>> THEN TRUE
    ELSE IF a[1] # b[1] THEN StrLt(a[1], b[1])
    ELSE PartsLt(Tail(a), Tail(b))

\* Path.__lt__: the parts of the two paths are compared as lists
PathLt(p, q) == PartsLt(SplitSep(p), SplitSep(q))

RootPath == <<"/">>
UnknownMarker == <<"<", "u", "n", "k", "n", "o", "w", "n", ">">>

-----------------------------------------------------------------------------
\* re.search with the pattern of parse_spelling_warnings: group 1 is any text,
\* then ":", group 2 (word characters), ":", one whitespace, "(", group 3 (word
\* characters), ")", an optional whitespace, group 4 (word characters), an
\* optional whitespace, group 5 (the rest of the line).

\* Positions are bound by quantifiers, never passed as expressions, so that
\* each is computed once.

\* s[i..j-1] is a run of \w characters
IsWordRun(s, i, j) == \A k \in i..(j - 1) : IsWord(s[k])

\* the index just after the longest run of \w characters starting at i
WordRunEnd(s, i) ==
    CHOOSE j \in i..(Len(s) + 1) :
        IsWordRun(s, i, j) /\ (j = Len(s) + 1 \/ ~IsWord(s[j]))

\* \s? at index i: the index after it
AfterOptionalSpace(s, i) == IF i <= Len(s) /\ IsSpace(s[i]) THEN i + 1 ELSE i

\* the ends of group 2, given that ":" of the pattern is at index p: the
\* index e2 of the second ":", which \s and "(" follow
Group2Ends(s, p) ==
    {e2 \in (p + 1)..Len(s) :
        /\ IsWordRun(s, p + 1, e2) /\ s[e2] = ":"
        /\ e2 + 2 <= Len(s) /\ IsSpace(s[e2 + 1]) /\ s[e2 + 2] = "("}

\* the ends of group 3: the index e3 of ")"
Group3Ends(s, e2) ==
    {e3 \in (e2 + 3)..Len(s) : IsWordRun(s, e2 + 3, e3) /\ s[e3] = ")"}

\* whether the pattern after group 1 matches at the colon at index p (what
\* follows ")" matches any text)
TailMatches(s, p) ==
    /\ s[p] = ":"
    /\ \E e2 \in Group2Ends(s, p) : Group3Ends(s, e2) # {}

\* the five groups, given the colon at p, the second colon at e2 and ")" at
\* e3: the optional whitespaces and group 4 are greedy, group 5 is the rest
Groups(s, p, e2, e3) ==
    LET k1 == AfterOptionalSpace(s, e3 + 1)
    IN  << SubSeq(s, 1, p - 1),
           SubSeq(s, p + 1, e2 - 1),
           SubSeq(s, e2 + 3, e3 - 1),
           SubSeq(s, k1, WordRunEnd(s, k1) - 1),
           SubSeq(s, AfterOptionalSpace(s, WordRunEnd(s, k1)), Len(s)) >>

\* the groups of the matches whose first group ends before the colon at p
GroupsAt(s, p) ==
    UNION { {Groups(s, p, e2, e3) : e3 \in Group3Ends(s, e2)} : e2 \in Group2Ends(s, p) }

\* The greedy first group takes the longest prefix that lets the rest match:
\* the colon of the match is the last one where the rest matches.
MatchColons(s) ==
    {p \in 1..Len(s) : TailMatches(s, p) /\ \A q \in (p + 1)..Len(s) : ~TailMatches(s, q)}

\* None, or the groups of the match
ReSearch(s) ==
    IF MatchColons(s) = {} THEN None
    ELSE Some(CHOOSE g \in UNION {GroupsAt(s, p) : p \in MatchColons(s)} : TRUE)

-----------------------------------------------------------------------------
(* SpellingError *)

SpellingError(file_path, line_no, spelling, suggestion, context_line, message) ==
    [file_path |-> file_path, line_no |-> line_no, spelling |-> spelling,
     suggestion |-> suggestion, context_line |-> context_line, message |-> message]

\* the record of the except branch and of the else branch
MessageOnly(line) == SpellingError(None, None, None, None, None, line)

NoneText == <<"N", "o", "n", "e">>

\* LineNoOf with the empty text forgotten: only "None" gives no line number
LineNoOfOnlyNone(g2) == IF g2 # NoneText THEN Some(IntVal(g2)) ELSE None

\* line_no=int(warning_parts[1]) if warning_parts[1] not in ("None", "") else None
LineNoOf(g2) == IF g2 \notin {NoneText, <<>>} THEN Some(IntVal(g2)) ELSE None

\* whether building the record raises: int() of a text that is no integer
ConstructionRaises(groups) == groups[2] \notin {NoneText, <<>>} /\ ~IntOk(groups[2])

\* suggestion=warning_parts[3] if warning_parts[3] else None
SuggestionOf(g4) == IF g4 # <<>> THEN Some(g4) ELSE None

\* FullRecord with an empty context line turned into None, as the suggestion is
FullRecordBlankContext(dir, groups, line) ==
    SpellingError(Some(PathJoin(dir, groups[1])), LineNoOf(groups[2]),
                  Some(groups[3]), SuggestionOf(groups[4]),
                  IF groups[5] # <<>> THEN Some(groups[5]) ELSE None, line)

\* the record of the try branch
FullRecord(dir, groups, line) ==
    SpellingError(Some(PathJoin(dir, groups[1])), LineNoOf(groups[2]),
                  Some(groups[3]), SuggestionOf(groups[4]), Some(groups[5]), line)

-----------------------------------------------------------------------------
(* parse_spelling_warnings *)

MaxLines == 2

\* The lines the input text is made of:
\*   (the empty line)
\*   a:1: (t) s c          every group non-empty
\*   a:0: (t)              line number 0, no suggestion, empty context
\*   a:None: (t) s c       line number "None"
\*   a:: (t) c             empty line number
\*   a:x: (t) s c          int("x") raises
\*   a:1_0: (t)  c         int("1_0") is 10; two spaces, so no suggestion
\*   /a:1:<TAB>(t)<TAB>c   absolute path, tabs as whitespace
\*   a:1:(t)               no whitespace after the second colon: no match
\*   :: ()                 the shortest matching line
\*   a:1: (t) c:0: (x)     two places match: group 1 runs to the last one
LinePool ==
    {
      <<>>,
      <<"a", ":", "1", ":", " ", "(", "t", ")", " ", "s", " ", "c">>,
      <<"a", ":", "0", ":", " ", "(", "t", ")">>,
      <<"a", ":", "N", "o", "n", "e", ":", " ", "(", "t", ")", " ", "s", " ", "c">>,
      <<"a", ":", ":", " ", "(", "t", ")", " ", "c">>,
      <<"a", ":", "x", ":", " ", "(", "t", ")", " ", "s", " ", "c">>,
      <<"a", ":", "1", "_", "0", ":", " ", "(", "t", ")", " ", " ", "c">>,
      <<"/", "a", ":", "1", ":", "\t", "(", "t", ")", "\t", "c">>,
      <<"a", ":", "1", ":", "(", "t", ")">>,
      <<":", ":", " ", "(", ")">>,
      <<"a", ":", "1", ":", " ", "(", "t", ")", " ", "c", ":", "0", ":", " ", "(", "x", ")">>
    }

DirPool == {<<"/">>, <<"/", "c">>}

\* a line terminator after every line but the last, and after the last when final
RECURSIVE JoinLines(_, _, _)
JoinLines(ls, term, final) ==
    IF ls = <<>> THEN <<>>
    ELSE IF Len(ls) = 1 THEN ls[1] \o (IF final THEN term ELSE <<>>)
    ELSE ls[1] \o term \o JoinLines(Tail(ls), term, final)

\* "\n" between lines with or without a final one, or "\r\n" between lines
Terminators == {<<<<"\n">>, FALSE>>, <<<<"\n">>, TRUE>>, <<<<"\r", "\n">>, FALSE>>}

TextPool ==
    { JoinLines(ls, t[1], t[2]) :
        ls \in UNION {[1..n -> LinePool] : n \in 0..MaxLines},
        t \in Terminators }

\* Skipped with the lines the pattern does not match dropped too
SkippedOrUnmatched(line) == line = <<>> \/ ReSearch(line) = None

\* if not sphinx_warning: continue
Skipped(line) == line = <<>>

\* if warning_parts and len(warning_parts) == 5
Matched(line) == ReSearch(line) # None /\ Len(ReSearch(line)[1]) = 5

\* RecordFor with an except branch that only gives up the line number
RecordForKeepFields(dir, line, m) ==
    IF m # None /\ Len(m[1]) = 5
    THEN IF ConstructionRaises(m[1])
         THEN SpellingError(Some(PathJoin(dir, m[1][1])), None, Some(m[1][3]),
                            SuggestionOf(m[1][4]), Some(m[1][5]), line)
         ELSE FullRecord(dir, m[1], line)
    ELSE MessageOnly(line)

\* the record built from a line and the result m of re.search on it
RecordFor(dir, line, m) ==
    IF m # None /\ Len(m[1]) = 5
    THEN IF ConstructionRaises(m[1])
         THEN MessageOnly(line)
         ELSE FullRecord(dir, m[1], line)
    ELSE MessageOnly(line)

\* the record one iteration of the loop appends for a line it does not skip
\* (m is bound to the match, so that the search is done once)
ParseLine(dir, line) ==
    CHOOSE e \in {RecordFor(dir, line, m) : m \in {ReSearch(line)}} : TRUE

ParseIdle ==
    /\ warning_text = <<>>
    /\ docs_dir = RootPath
    /\ split_lines = <<>>
    /\ line_idx = 0
    /\ sphinx_spelling_errors = <<>>
    /\ parse_pc = "idle"

ParseCall ==
    /\ parse_pc = "call"
    /\ sphinx_spelling_errors' = <<>>
    /\ split_lines' = SplitLines(warning_text)
    /\ line_idx' = 1
    /\ parse_pc' = "loop"
    /\ UNCHANGED <<warning_text, docs_dir>>
    /\ ParseFrame

ParseSkipBlank ==
    /\ parse_pc = "loop"
    /\ line_idx <= Len(split_lines)
    /\ Skipped(split_lines[line_idx])
    /\ line_idx' = line_idx + 1
    /\ UNCHANGED <<warning_text, docs_dir, split_lines, sphinx_spelling_errors, parse_pc>>
    /\ ParseFrame

ParseAppend(line) ==
    /\ sphinx_spelling_errors' = Append(sphinx_spelling_errors, ParseLine(docs_dir, line))
    /\ line_idx' = line_idx + 1
    /\ UNCHANGED <<warning_text, docs_dir, split_lines, parse_pc>>

\* the try branch, completed
ParseMatched ==
    /\ parse_pc = "loop"
    /\ line_idx <= Len(split_lines)
    /\ LET line == split_lines[line_idx]
       IN  /\ ~Skipped(line)
           /\ Matched(line) /\ ~ConstructionRaises(ReSearch(line)[1])
           /\ ParseAppend(line)
    /\ ParseFrame

\* the try branch raised: the except branch
ParseRaised ==
    /\ parse_pc = "loop"
    /\ line_idx <= Len(split_lines)
    /\ LET line == split_lines[line_idx]
       IN  /\ ~Skipped(line)
           /\ Matched(line) /\ ConstructionRaises(ReSearch(line)[1])
           /\ ParseAppend(line)
    /\ ParseFrame

\* the else branch
ParseUnmatched ==
    /\ parse_pc = "loop"
    /\ line_idx <= Len(split_lines)
    /\ LET line == split_lines[line_idx]
       IN  /\ ~Skipped(line)
           /\ ~Matched(line)
           /\ ParseAppend(line)
    /\ ParseFrame

ParseReturn ==
    /\ parse_pc = "loop"
    /\ line_idx > Len(split_lines)
    /\ parse_pc' = "returned"
    /\ UNCHANGED <<warning_text, docs_dir, split_lines, line_idx, sphinx_spelling_errors>>
    /\ ParseFrame


-----------------------------------------------------------------------------
(* SpellingError.__eq__ and SpellingError.__lt__ *)

\* the tuple both sides of __eq__ build
EqKey(r) == <<r.file_path, r.line_no, r.spelling, r.context_line, r.message>>

\* __eq__
SpellingErrorEq(a, b) == EqKey(a) = EqKey(b)

\* x or default, for an Optional Path (a Path is always truthy)
PathOr(opt, default) == IF opt = None THEN default ELSE opt[1]
\* x or 0, for an Optional int
IntOr(opt) == IF opt = None THEN 0 ELSE opt[1]
\* x or "", for an Optional str
StrOr(opt) == IF opt = None THEN <<>> ELSE opt[1]

\* SortKey with the spelling before the context line
SortKeySpellingFirst(r) ==
    << PathOr(r.file_path, RootPath),
       IntOr(r.line_no),
       StrOr(r.spelling),
       StrOr(r.context_line),
       r.message >>

\* the tuple both sides of __lt__ build
SortKey(r) ==
    << PathOr(r.file_path, RootPath),
       IntOr(r.line_no),
       StrOr(r.context_line),
       StrOr(r.spelling),
       r.message >>      \* message is a str: message or "" is message

\* Python's < on two such tuples: the first position where they differ decides
TupleLt(ka, kb) ==
    IF ka[1] # kb[1] THEN PathLt(ka[1], kb[1])
    ELSE IF ka[2] # kb[2] THEN ka[2] < kb[2]
    ELSE IF ka[3] # kb[3] THEN StrLt(ka[3], kb[3])
    ELSE IF ka[4] # kb[4] THEN StrLt(ka[4], kb[4])
    ELSE IF ka[5] # kb[5] THEN StrLt(ka[5], kb[5])
    ELSE FALSE

\* __lt__
SpellingErrorLt(a, b) == TupleLt(SortKey(a), SortKey(b))

\* The records compared: every combination of these field values.
CmpPaths == {None, Some(<<"/">>), Some(<<"/", "a">>)}
CmpLineNos == {None, Some(0), Some(1)}
CmpSpellings == {None, Some(<<>>), Some(<<"t">>)}
CmpSuggestions == {None, Some(<<"s">>)}
CmpContexts == {None, Some(<<>>), Some(<<"c">>)}
CmpMessages == {<<>>, <<"x">>}

CmpPool ==
    { SpellingError(f, l, w, g, c, m) :
        f \in CmpPaths, l \in CmpLineNos, w \in CmpSpellings,
        g \in CmpSuggestions, c \in CmpContexts, m \in CmpMessages }

CmpIdle ==
    /\ rec_a = MessageOnly(<<>>)
    /\ rec_b = MessageOnly(<<>>)
    /\ cmp_pc = "idle"
    /\ cmp_eq = FALSE
    /\ cmp_lt = FALSE
    /\ cmp_gt = FALSE

\* a == b, a < b and b < a are evaluated
Compare ==
    /\ cmp_pc = "args"
    /\ cmp_eq' = SpellingErrorEq(rec_a, rec_b)
    /\ cmp_lt' = SpellingErrorLt(rec_a, rec_b)
    /\ cmp_gt' = SpellingErrorLt(rec_b, rec_a)
    /\ cmp_pc' = "compared"
    /\ UNCHANGED <<rec_a, rec_b>>
    /\ CmpFrame

-----------------------------------------------------------------------------
(* _display_error *)

TruthyStr(opt) == opt # None /\ opt[1] # <<>>
TruthyInt(opt) == opt # None /\ opt[1] # 0

\* the condition guarding the line number and the code snippet
ShowsSnippet(error, files) ==
    /\ error.file_path # None
    /\ ~EndsWith(error.file_path[1], UnknownMarker)
    /\ TruthyInt(error.line_no)
    /\ error.file_path[1] \in files

\* what _display_error prints, one event per console.print
DisplayError(error, files) ==
    << <<"message", error.message>>, <<"blank">> >>
    \o (IF error.file_path # None
        THEN << <<"file_path", error.file_path[1]>> >>
             \o (IF TruthyStr(error.spelling)
                 THEN << <<"spelling", error.spelling[1]>> >> ELSE <<>>)
             \o (IF TruthyStr(error.suggestion)
                 THEN << <<"suggestion", error.suggestion[1]>> >> ELSE <<>>)
             \o (IF TruthyStr(error.context_line)
                 THEN << <<"context_line", error.context_line[1]>> >> ELSE <<>>)
             \o (IF ShowsSnippet(error, files)
                 THEN << <<"line_no", error.line_no[1]>>,
                         <<"snippet", error.file_path[1], error.line_no[1]>> >>
                 ELSE <<>>)
        ELSE <<>>)


-----------------------------------------------------------------------------
(* display_spelling_error_summary *)

\* sorted(errors): a stable sort that uses only __lt__
RECURSIVE InsertError(_, _)
InsertError(sorted, x) ==
    IF sorted = <<>> THEN <<x>>
    ELSE IF SpellingErrorLt(x, sorted[1]) THEN <<x>> \o sorted
    ELSE <<sorted[1]>> \o InsertError(Tail(sorted), x)

RECURSIVE SortErrorsAcc(_, _)
SortErrorsAcc(errors, acc) ==
    IF errors = <<>> THEN acc
    ELSE SortErrorsAcc(Tail(errors), InsertError(acc, errors[1]))

\* SortedErrors without the sort: the errors in the order given
UnsortedErrors(errors) == errors

SortedErrors(errors) == SortErrorsAcc(errors, <<>>)

\* < on two (package_name, errors) items of a dict: the names differ
ItemLt(i, j) == StrLt(i[1], j[1])

RECURSIVE InsertItem(_, _)
InsertItem(sorted, x) ==
    IF sorted = <<>> THEN <<x>>
    ELSE IF ItemLt(x, sorted[1]) THEN <<x>> \o sorted
    ELSE <<sorted[1]>> \o InsertItem(Tail(sorted), x)

RECURSIVE SortItemsAcc(_, _)
SortItemsAcc(items, acc) ==
    IF items = <<>> THEN acc
    ELSE SortItemsAcc(Tail(items), InsertItem(acc, items[1]))

\* sorted(spelling_errors.items())
SortedItems(items) == SortItemsAcc(items, <<>>)

General == <<"G", "e", "n", "e", "r", "a", "l">>

\* the name printed in the category header
CategoryLabel(package_name) == IF package_name # <<>> THEN package_name ELSE General

StartEvents == << <<"blank">>, <<"start_banner">>, <<"blank">> >>
EndEvents ==
    << <<"rule">>, <<"blank">>, <<"guidance">>, <<"blank">>, <<"end_banner">> >>

DispIdle ==
    /\ spelling_errors = <<>>
    /\ existing_files = {}
    /\ disp_pc = "idle"
    /\ disp_todo = <<>>
    /\ disp_errors = <<>>
    /\ disp_no = 0
    /\ console_out = <<>>

\* the start banner; the items are sorted for the outer loop
DisplayCall ==
    /\ disp_pc = "call"
    /\ console_out' = StartEvents
    /\ disp_todo' = SortedItems(spelling_errors)
    /\ disp_pc' = "categories"
    /\ UNCHANGED <<spelling_errors, existing_files, disp_errors, disp_no>>
    /\ DispFrame

\* one iteration of the outer loop begins: the header, and sorted(errors)
DisplayCategory ==
    /\ disp_pc = "categories"
    /\ disp_errors = <<>>
    /\ disp_todo # <<>>
    /\ console_out' = Append(console_out, <<"category", CategoryLabel(disp_todo[1][1])>>)
    /\ disp_errors' = SortedErrors(disp_todo[1][2])
    /\ disp_no' = 1
    /\ disp_todo' = Tail(disp_todo)
    /\ UNCHANGED <<spelling_errors, existing_files, disp_pc>>
    /\ DispFrame

\* one iteration of the inner loop: the "Error n" header, then _display_error;
\* the event "_display_error" marks the call and carries its argument
DisplayOneError ==
    /\ disp_pc = "categories"
    /\ disp_errors # <<>>
    /\ console_out' =
           console_out
           \o << <<"error_no", disp_no>>, <<"_display_error", disp_errors[1]>> >>
           \o DisplayError(disp_errors[1], existing_files)
    /\ disp_errors' = Tail(disp_errors)
    /\ disp_no' = disp_no + 1
    /\ UNCHANGED <<spelling_errors, existing_files, disp_pc, disp_todo>>
    /\ DispFrame

\* after the loops: the closing rule, the guidance and the end banner
DisplayFooter ==
    /\ disp_pc = "categories"
    /\ disp_errors = <<>>
    /\ disp_todo = <<>>
    /\ console_out' = console_out \o EndEvents
    /\ disp_pc' = "returned"
    /\ UNCHANGED <<spelling_errors, existing_files, disp_todo, disp_errors, disp_no>>
    /\ DispFrame

\* The dict arguments: built, as a caller does, from a list of
\* (package_name, error) findings; a finding without an error only registers
\* the category.
MaxFindings == 3

DispKeys == {<<>>, <<"a">>, <<"c">>}

DispPool ==
    { ParseLine(<<"/">>, l) :
        l \in { <<"x">>,
                <<"a", ":", "1", ":", " ", "(", "t", ")", " ", "s", " ", "c">>,
                <<"a", ":", "0", ":", " ", "(", "t", ")">> } }

Findings == DispKeys \X ({None} \cup {Some(e) : e \in DispPool})

RECURSIVE AddFinding(_, _)
AddFinding(items, f) ==
    IF items = <<>> THEN << <<f[1], f[2]>> >>
    ELSE IF items[1][1] = f[1] THEN << <<f[1], items[1][2] \o f[2]>> >> \o Tail(items)
    ELSE <<items[1]>> \o AddFinding(Tail(items), f)

RECURSIVE DictOf(_)
DictOf(fs) ==
    IF fs = <<>> THEN <<>>
    ELSE AddFinding(DictOf(SubSeq(fs, 1, Len(fs) - 1)), fs[Len(fs)])

DictPool == { DictOf(fs) : fs \in UNION {[1..n -> Findings] : n \in 0..MaxFindings} }

\* The arguments of a single _display_error call: every combination of these.
ShowPaths ==
    { None, Some(<<"/", "a">>), Some(<<"/", "c">>),
      Some(<<"/", "a", "/">> \o UnknownMarker), Some(<<"/", "a">> \o UnknownMarker) }
ShowLineNos == {None, Some(0), Some(1), Some(10)}
ShowWords == {None, Some(<<>>), Some(<<"t">>)}

ShowPool ==
    { SpellingError(f, l, w, g, c, <<"x">>) :
        f \in ShowPaths, l \in ShowLineNos, w \in ShowWords,
        g \in {None, Some(<<"s">>)}, c \in {None, Some(<<"c">>)} }

FilePool == {<<"/", "a">>, <<"/", "a", "/">> \o UnknownMarker}


-----------------------------------------------------------------------------
(* AzureCosmosInsertDocumentOperator.execute *)

NumRuns == 2

Runs == 1..NumRuns

DatabaseNames == {"db1", "db2"}
CollectionNames == {"coll1"}
Documents == {"doc1", "doc2"}

\* the operator's fields, set by __init__
OperatorArgs ==
    [database_name : DatabaseNames, collection_name : CollectionNames,
     document : Documents]

\* The hook (AzureCosmosDBHook) acts on the store.
HookDoesDatabaseExist(database_name) == database_name \in databases

HookDoesCollectionExist(collection_name, database_name) ==
    <<database_name, collection_name>> \in collections

HookCreateDatabase(database_name) == databases \cup {database_name}

HookCreateCollection(collection_name, database_name) ==
    collections \cup {<<database_name, collection_name>>}

HookUpsertDocument(document, database_name, collection_name) ==
    documents \cup {<<database_name, collection_name, document>>}

\* the hook calls, as logged
CallDoesDatabaseExist(a) == <<"does_database_exist", a.database_name>>
CallCreateDatabase(a) == <<"create_database", a.database_name>>
CallDoesCollectionExist(a) ==
    <<"does_collection_exist", a.collection_name, a.database_name>>
CallCreateCollection(a) == <<"create_collection", a.collection_name, a.database_name>>
CallUpsertDocument(a) ==
    <<"upsert_document", a.document, a.database_name, a.collection_name>>

CosmosIdle ==
    /\ databases = {}
    /\ collections = {}
    /\ documents = {}
    /\ op_args = <<>>
    /\ run_pc = <<>>
    /\ run_calls = <<>>
    /\ run_seen = <<>>
    /\ store_log = <<>>

\* AfterDatabaseCheck with the condition dropped: the database is always created
AlwaysCreateDatabase(exists) == "create_database"

\* AfterCollectionCheck with the condition inverted
CreateCollectionIfExists(exists) == IF exists THEN "create_collection" ELSE "upsert"

\* where execute goes after "if not hook.does_database_exist(...)"
AfterDatabaseCheck(exists) == IF ~exists THEN "create_database" ELSE "check_collection"

\* where execute goes after "if not hook.does_collection_exist(...)"
AfterCollectionCheck(exists) == IF ~exists THEN "create_collection" ELSE "upsert"

\* hook.does_database_exist(self.database_name) returns
CheckDatabase(r) ==
    /\ run_pc[r] = "check_database"
    /\ LET exists == HookDoesDatabaseExist(op_args[r].database_name)
       IN  /\ run_seen' = [run_seen EXCEPT ![r].database = exists]
           /\ run_pc' = [run_pc EXCEPT ![r] = AfterDatabaseCheck(exists)]
    /\ run_calls' = [run_calls EXCEPT ![r] = Append(@, CallDoesDatabaseExist(op_args[r]))]
    /\ UNCHANGED <<databases, collections, documents, op_args, store_log>>
    /\ CosmosFrame

\* hook.create_database(self.database_name) returns
CreateDatabase(r) ==
    /\ run_pc[r] = "create_database"
    /\ databases' = HookCreateDatabase(op_args[r].database_name)
    /\ store_log' = Append(store_log,
           [run |-> r, call |-> CallCreateDatabase(op_args[r]),
            existed |-> HookDoesDatabaseExist(op_args[r].database_name)])
    /\ run_calls' = [run_calls EXCEPT ![r] = Append(@, CallCreateDatabase(op_args[r]))]
    /\ run_pc' = [run_pc EXCEPT ![r] = "check_collection"]
    /\ UNCHANGED <<collections, documents, op_args, run_seen>>
    /\ CosmosFrame

\* hook.does_collection_exist(self.collection_name, self.database_name) returns
CheckCollection(r) ==
    /\ run_pc[r] = "check_collection"
    /\ LET exists ==
               HookDoesCollectionExist(op_args[r].collection_name, op_args[r].database_name)
       IN  /\ run_seen' = [run_seen EXCEPT ![r].collection = exists]
           /\ run_pc' = [run_pc EXCEPT ![r] = AfterCollectionCheck(exists)]
    /\ run_calls' = [run_calls EXCEPT ![r] = Append(@, CallDoesCollectionExist(op_args[r]))]
    /\ UNCHANGED <<databases, collections, documents, op_args, store_log>>
    /\ CosmosFrame

\* hook.create_collection(self.collection_name, self.database_name) returns
CreateCollection(r) ==
    /\ run_pc[r] = "create_collection"
    /\ collections' =
           HookCreateCollection(op_args[r].collection_name, op_args[r].database_name)
    /\ store_log' = Append(store_log,
           [run |-> r, call |-> CallCreateCollection(op_args[r]),
            existed |-> HookDoesCollectionExist(op_args[r].collection_name,
                                                op_args[r].database_name)])
    /\ run_calls' = [run_calls EXCEPT ![r] = Append(@, CallCreateCollection(op_args[r]))]
    /\ run_pc' = [run_pc EXCEPT ![r] = "upsert"]
    /\ UNCHANGED <<databases, documents, op_args, run_seen>>
    /\ CosmosFrame

\* hook.upsert_document(self.document, self.database_name, self.collection_name)
\* returns, and execute with it
UpsertDocument(r) ==
    /\ run_pc[r] = "upsert"
    /\ documents' = HookUpsertDocument(op_args[r].document, op_args[r].database_name,
                                       op_args[r].collection_name)
    /\ run_calls' = [run_calls EXCEPT ![r] = Append(@, CallUpsertDocument(op_args[r]))]
    /\ run_pc' = [run_pc EXCEPT ![r] = "done"]
    /\ UNCHANGED <<databases, collections, op_args, run_seen, store_log>>
    /\ CosmosFrame

\* the hook call execute is about to make
PendingCall(r) ==
    CASE run_pc[r] = "check_database" -> CallDoesDatabaseExist(op_args[r])
      [] run_pc[r] = "create_database" -> CallCreateDatabase(op_args[r])
      [] run_pc[r] = "check_collection" -> CallDoesCollectionExist(op_args[r])
      [] run_pc[r] = "create_collection" -> CallCreateCollection(op_args[r])
      [] run_pc[r] = "upsert" -> CallUpsertDocument(op_args[r])

\* the hook call raises: nothing in execute catches it, the run ends failed
HookRaises(r) ==
    /\ run_pc[r] \in {"check_database", "create_database", "check_collection",
                      "create_collection", "upsert"}
    /\ run_calls' = [run_calls EXCEPT ![r] = Append(@, PendingCall(r))]
    /\ run_pc' = [run_pc EXCEPT ![r] = "failed"]
    /\ UNCHANGED <<databases, collections, documents, op_args, run_seen, store_log>>
    /\ CosmosFrame

-----------------------------------------------------------------------------
(* Specifications *)

\* parse_spelling_warnings on every text of TextPool
InitParse ==
    /\ warning_text \in TextPool
    /\ docs_dir \in DirPool
    /\ split_lines = <<>>
    /\ line_idx = 0
    /\ sphinx_spelling_errors = <<>>
    /\ parse_pc = "call"
    /\ CmpIdle /\ DispIdle /\ CosmosIdle

NextParse ==
    \/ ParseCall
    \/ ParseSkipBlank
    \/ ParseMatched
    \/ ParseRaised
    \/ ParseUnmatched
    \/ ParseReturn

SpecParse == InitParse /\ [][NextParse]_vars

\* a call runs to its end: the function is synchronous and nothing preempts it
SpecParseFair == SpecParse /\ WF_vars(NextParse)

\* __eq__ and __lt__ on every pair of records of CmpPool
InitCompare ==
    /\ rec_a \in CmpPool
    /\ rec_b \in CmpPool
    /\ cmp_pc = "args"
    /\ cmp_eq = FALSE
    /\ cmp_lt = FALSE
    /\ cmp_gt = FALSE
    /\ ParseIdle /\ DispIdle /\ CosmosIdle

NextCompare == Compare

SpecCompare == InitCompare /\ [][NextCompare]_vars

NextDisplay ==
    \/ DisplayCall
    \/ DisplayCategory
    \/ DisplayOneError
    \/ DisplayFooter

\* display_spelling_error_summary on every dict of DictPool
InitDisplay ==
    /\ spelling_errors \in DictPool
    /\ existing_files = {<<"/", "a">>}
    /\ disp_pc = "call"
    /\ disp_todo = <<>>
    /\ disp_errors = <<>>
    /\ disp_no = 0
    /\ console_out = <<>>
    /\ ParseIdle /\ CmpIdle /\ CosmosIdle

SpecDisplay == InitDisplay /\ [][NextDisplay]_vars

\* the summary of a single error, for every record of ShowPool and every set
\* of existing files
InitShow ==
    /\ spelling_errors \in { << <<k, <<e>> >> >> : k \in {<<>>, <<"a">>}, e \in ShowPool }
    /\ existing_files \in SUBSET FilePool
    /\ disp_pc = "call"
    /\ disp_todo = <<>>
    /\ disp_errors = <<>>
    /\ disp_no = 0
    /\ console_out = <<>>
    /\ ParseIdle /\ CmpIdle /\ CosmosIdle

SpecShow == InitShow /\ [][NextDisplay]_vars

\* NumRuns runs of execute, interleaved at their hook calls, on every store
InitCosmos ==
    /\ databases \in SUBSET DatabaseNames
    /\ collections \in SUBSET (databases \X CollectionNames)
    /\ documents = {}
    /\ op_args \in [Runs -> OperatorArgs]
    /\ run_pc = [r \in Runs |-> "check_database"]
    /\ run_calls = [r \in Runs |-> <<>>]
    /\ run_seen = [r \in Runs |-> [database |-> FALSE, collection |-> FALSE]]
    /\ store_log = <<>>
    /\ ParseIdle /\ CmpIdle /\ DispIdle

NextCosmos ==
    \E r \in Runs :
        \/ CheckDatabase(r)
        \/ CreateDatabase(r)
        \/ CheckCollection(r)
        \/ CreateCollection(r)
        \/ UpsertDocument(r)
        \/ HookRaises(r)

SpecCosmos == InitCosmos /\ [][NextCosmos]_vars


-----------------------------------------------------------------------------
(* Properties of parse_spelling_warnings, under SpecParse *)

NonEmpty(line) == line # <<>>

\* the lines of the text, and those the loop has been through
Lines == SplitLines(warning_text)
Processed == IF parse_pc = "call" THEN 0 ELSE line_idx - 1

\* the number of non-empty lines among the first k lines
NonEmptyUpTo(k) == Len(SelectSeq(SubSeq(Lines, 1, k), NonEmpty))

\* what is built after the lines processed so far: exactly one record per
\* non-empty line among them, in their order, each with its line as message
RecordsMatchLines ==
    /\ parse_pc \in {"loop", "returned"} =>
        LET kept == SelectSeq(SubSeq(Lines, 1, Processed), NonEmpty)
        IN  /\ Len(sphinx_spelling_errors) = Len(kept)
            /\ \A i \in 1..Len(kept) : sphinx_spelling_errors[i].message = kept[i]
    /\ parse_pc = "returned" =>
        /\ Processed = Len(Lines)
        /\ Len(sphinx_spelling_errors)
             = Len(Lines) - Cardinality({i \in 1..Len(Lines) : Lines[i] = <<>>})

\* C1: for every text and base directory parse_spelling_warnings returns (no
\* line stops it), and what it has built always holds exactly one record per
\* non-empty line processed, in the order of the lines, the i-th record's
\* message being the i-th non-empty line verbatim; on return all N lines are
\* processed, so N lines with K empty ones give N-K records.
C1_OneRecordPerNonEmptyLine == []RecordsMatchLines /\ <>(parse_pc = "returned")

\* a text of two lines, one of them empty, was parsed into one record
C1_Witness ==
    /\ parse_pc = "returned"
    /\ Len(Lines) = 2
    /\ Cardinality({i \in 1..Len(Lines) : Lines[i] = <<>>}) = 1
    /\ Len(sphinx_spelling_errors) = 1

OptionalFields(e) == <<e.file_path, e.line_no, e.spelling, e.suggestion, e.context_line>>

\* C3, as stated: in every record built, file_path, line_no, spelling,
\* suggestion and context_line are all present or all absent.
C3_AllOrNone ==
    \A i \in 1..Len(sphinx_spelling_errors) :
        LET f == OptionalFields(sphinx_spelling_errors[i])
        IN  (\A j \in 1..5 : f[j] # None) \/ (\A j \in 1..5 : f[j] = None)

\* C3, amended: in every record built, file_path, spelling and context_line
\* are all present or all absent; line_no and suggestion are absent when those
\* three are absent and may each be absent when they are present.
C3_PositionalAllOrNone ==
    \A i \in 1..Len(sphinx_spelling_errors) :
        LET e == sphinx_spelling_errors[i]
        IN  \/ /\ e.file_path # None /\ e.spelling # None /\ e.context_line # None
            \/ /\ e.file_path = None /\ e.spelling = None /\ e.context_line = None
               /\ e.line_no = None /\ e.suggestion = None

\* a returned list holding a record with a path and no line number and no
\* suggestion, and a record with no optional field at all
C3_Witness ==
    /\ parse_pc = "returned"
    /\ \E i, j \in 1..Len(sphinx_spelling_errors) :
        /\ sphinx_spelling_errors[i].file_path # None
        /\ sphinx_spelling_errors[i].line_no = None
        /\ sphinx_spelling_errors[i].suggestion = None
        /\ sphinx_spelling_errors[j] = MessageOnly(sphinx_spelling_errors[j].message)

\* the line-number group is neither "None" nor empty, and int() rejects it
Unparsable(groups) == groups[2] # NoneText /\ groups[2] # <<>> /\ ~IntOk(groups[2])

\* C4: a processed non-empty line that the pattern does not match, or that it
\* matches with a line-number group int() rejects, has given exactly one
\* record, with every optional field absent and the line as message; the
\* lines after it are processed all the same.
C4_MalformedIsMessageOnly ==
    /\ \A k \in 1..Processed :
        LET line == Lines[k]
            m == ReSearch(line)
        IN  (NonEmpty(line) /\ (m = None \/ Unparsable(m[1]))) =>
                /\ NonEmptyUpTo(k) = NonEmptyUpTo(k - 1) + 1
                /\ NonEmptyUpTo(k) <= Len(sphinx_spelling_errors)
                /\ sphinx_spelling_errors[NonEmptyUpTo(k)]
                     = [file_path |-> None, line_no |-> None, spelling |-> None,
                        suggestion |-> None, context_line |-> None, message |-> line]
    /\ parse_pc = "returned" =>
        /\ Processed = Len(Lines)
        /\ Len(sphinx_spelling_errors) = NonEmptyUpTo(Len(Lines))

\* a text whose first line matches but has an unparsable line number and
\* whose second line does not match was parsed to the end
C4_Witness ==
    /\ parse_pc = "returned"
    /\ Len(Lines) = 2
    /\ ReSearch(Lines[1]) # None /\ Unparsable(ReSearch(Lines[1])[1])
    /\ NonEmpty(Lines[2]) /\ ReSearch(Lines[2]) = None
    /\ Len(sphinx_spelling_errors) = 2

\* C5: a processed line that the pattern matches with a line-number group
\* "None" or empty has given a record with line_no absent, file_path the base
\* directory joined with group 1, spelling group 3, context_line group 5 and
\* the line as message.
C5_NoneLineNumber ==
    \A k \in 1..Processed :
        LET line == Lines[k]
            m == ReSearch(line)
        IN  (m # None /\ m[1][2] \in {NoneText, <<>>}) =>
                LET e == sphinx_spelling_errors[NonEmptyUpTo(k)]
                IN  /\ e.line_no = None
                    /\ e.file_path = Some(PathJoin(docs_dir, m[1][1]))
                    /\ e.spelling = Some(m[1][3])
                    /\ e.context_line = Some(m[1][5])
                    /\ e.message = line

\* both a line with the line number "None" and a line with an empty line
\* number were parsed
C5_Witness ==
    /\ parse_pc = "returned"
    /\ Len(Lines) = 2
    /\ ReSearch(Lines[1]) # None /\ ReSearch(Lines[1])[1][2] = NoneText
    /\ ReSearch(Lines[2]) # None /\ ReSearch(Lines[2])[1][2] = <<>>
    /\ Len(sphinx_spelling_errors) = 2
    /\ docs_dir # RootPath

-----------------------------------------------------------------------------
(* Properties of SpellingError.__eq__ and __lt__, under SpecCompare *)

\* C6, as stated: for any two records exactly one of a < b, b < a, a == b
\* holds, and records that differ only in suggestion are equal.
C6_Trichotomy ==
    cmp_pc = "compared" =>
        /\ \/ cmp_lt /\ ~cmp_gt /\ ~cmp_eq
           \/ ~cmp_lt /\ cmp_gt /\ ~cmp_eq
           \/ ~cmp_lt /\ ~cmp_gt /\ cmp_eq
        /\ [rec_a EXCEPT !.suggestion = None] = [rec_b EXCEPT !.suggestion = None]
             => cmp_eq

\* a record without line number and the same record with line number 0 are
\* neither equal nor ordered
C6_Unordered ==
    /\ cmp_pc = "compared"
    /\ rec_a.line_no = None /\ rec_b = [rec_a EXCEPT !.line_no = Some(0)]
    /\ ~cmp_eq /\ ~cmp_lt /\ ~cmp_gt

\* the key of the claim: absent file_path is the root path, absent line_no
\* is 0, absent strings are empty
ClaimKey(r) ==
    << IF r.file_path = None THEN <<"/">> ELSE r.file_path[1],
       IF r.line_no = None THEN 0 ELSE r.line_no[1],
       IF r.context_line = None THEN <<>> ELSE r.context_line[1],
       IF r.spelling = None THEN <<>> ELSE r.spelling[1],
       r.message >>

\* x is before y at position i of the key
ElementLess(i, x, y) ==
    IF i = 1 THEN PathLt(x, y) ELSE IF i = 2 THEN x < y ELSE StrLt(x, y)

\* ka is lexicographically before kb
LexLess(ka, kb) ==
    \E i \in 1..5 :
        /\ \A j \in 1..(i - 1) : ka[j] = kb[j]
        /\ ElementLess(i, ka[i], kb[i])

\* C7: a < b is the lexicographic comparison of the keys (file_path, line_no,
\* context, token, message) with the defaults; so a < b whenever the path of a
\* is before the path of b, whatever the other fields; and no choice of the
\* two suggestions changes a < b.
C7_LexicographicKey ==
    cmp_pc = "compared" =>
        /\ cmp_lt = LexLess(ClaimKey(rec_a), ClaimKey(rec_b))
        /\ PathLt(ClaimKey(rec_a)[1], ClaimKey(rec_b)[1]) => cmp_lt
        /\ \A ga, gb \in CmpSuggestions :
            SpellingErrorLt([rec_a EXCEPT !.suggestion = ga],
                            [rec_b EXCEPT !.suggestion = gb]) = cmp_lt

\* a is before b by its path alone: a has no path (the root), b has one, and
\* every other key field of a is after that of b
C7_Witness ==
    /\ cmp_pc = "compared"
    /\ rec_a.file_path = None /\ rec_b.file_path = Some(<<"/", "a">>)
    /\ rec_a.line_no = Some(1) /\ rec_b.line_no = None
    /\ rec_a.context_line = Some(<<"c">>) /\ rec_b.context_line = None
    /\ rec_a.spelling = Some(<<"t">>) /\ rec_b.spelling = Some(<<>>)
    /\ rec_a.message = <<"x">> /\ rec_b.message = <<>>
    /\ rec_a.suggestion # rec_b.suggestion
    /\ cmp_lt /\ ~cmp_gt

-----------------------------------------------------------------------------
(* Properties of display_spelling_error_summary, under SpecDisplay *)

IsCategoryEvent(e) == e[1] = "category"
IsErrorNoEvent(e) == e[1] = "error_no"
IsCallEvent(e) == e[1] = "_display_error"

\* what is printed between the start events and the end events
BodyEnd == Len(console_out) - Len(EndEvents)

\* the section of the category header at index i: up to the next header
SectionEnd(i) ==
    LET later == {j \in (i + 1)..BodyEnd : IsCategoryEvent(console_out[j])}
    IN  IF later = {} THEN BodyEnd ELSE CHOOSE j \in later : \A k \in later : j <= k

Section(i) == SubSeq(console_out, i + 1, SectionEnd(i))

KeyOfLabel(label) == IF label = General THEN <<>> ELSE label

\* the errors given for a category
ErrorsGiven(key) ==
    LET n == CHOOSE n \in 1..Len(spelling_errors) : spelling_errors[n][1] = key
    IN  spelling_errors[n][2]

Count(seq, x) == Cardinality({i \in 1..Len(seq) : seq[i] = x})

\* C8: between the start banner and the closing events there is one section
\* per category, in ascending order of the category key, the empty key first
\* and shown as "General"; in each section every record given for the
\* category is displayed exactly once, in non-decreasing order of __lt__,
\* each after an "Error n" header with n = 1, 2, 3, ... from 1 in every
\* section.
C8_SortedSections ==
    disp_pc = "returned" =>
        LET out == console_out
            heads == {i \in 1..Len(out) : IsCategoryEvent(out[i])}
            cats == SelectSeq(out, IsCategoryEvent)
        IN  /\ SubSeq(out, 1, Len(StartEvents)) = StartEvents
            /\ SubSeq(out, BodyEnd + 1, Len(out)) = EndEvents
            /\ \A i \in (Len(StartEvents) + 1)..BodyEnd :
                   out[i][1] \notin {"start_banner", "rule", "guidance", "end_banner"}
            /\ heads # {} => Len(StartEvents) + 1 \in heads
            /\ heads = {} => BodyEnd = Len(StartEvents)
            /\ Len(cats) = Len(spelling_errors)
            /\ {KeyOfLabel(cats[i][2]) : i \in 1..Len(cats)}
                 = {spelling_errors[n][1] : n \in 1..Len(spelling_errors)}
            /\ \A i, j \in 1..Len(cats) :
                   i < j => StrLt(KeyOfLabel(cats[i][2]), KeyOfLabel(cats[j][2]))
            /\ \A i \in heads :
                   LET sec == Section(i)
                       shown == SelectSeq(sec, IsCallEvent)
                       numbers == SelectSeq(sec, IsErrorNoEvent)
                       given == ErrorsGiven(KeyOfLabel(out[i][2]))
                   IN  /\ Len(shown) = Len(given)
                       /\ \A r \in DispPool : Count(shown, <<"_display_error", r>>) = Count(given, r)
                       /\ \A a, b \in 1..Len(shown) :
                              a < b => ~SpellingErrorLt(shown[b][2], shown[a][2])
                       /\ numbers = [n \in 1..Len(shown) |-> <<"error_no", n>>]
                       /\ \A k \in 1..Len(sec) :
                              IsCallEvent(sec[k]) => k > 1 /\ IsErrorNoEvent(sec[k - 1])

\* a summary was printed for two categories given in descending key order,
\* the empty key among them, one of them with two errors given out of order
C8_Witness ==
    /\ disp_pc = "returned"
    /\ Len(spelling_errors) = 2
    /\ spelling_errors[2][1] = <<>>
    /\ StrLt(spelling_errors[2][1], spelling_errors[1][1])
    /\ Len(spelling_errors[1][2]) = 2
    /\ SpellingErrorLt(spelling_errors[1][2][2], spelling_errors[1][2][1])
    /\ Len(spelling_errors[2][2]) = 1

-----------------------------------------------------------------------------
(* Properties of _display_error, under SpecShow *)

\* the one error of the summary
ShownError == spelling_errors[1][2][1]

LineNoPrinted == \E i \in 1..Len(console_out) : console_out[i][1] = "line_no"
SnippetPrinted == \E i \in 1..Len(console_out) : console_out[i][1] = "snippet"

\* C9, as stated: the line number and the excerpt are printed exactly when
\* file_path is present, line_no is present (0 included), the path does not
\* end with "<unknown>" and the path is an existing file.
C9_SnippetIffPresent ==
    disp_pc = "returned" =>
        LET wanted ==
                /\ ShownError.file_path # None
                /\ ShownError.line_no # None
                /\ ~EndsWith(ShownError.file_path[1], UnknownMarker)
                /\ ShownError.file_path[1] \in existing_files
        IN  /\ LineNoPrinted <=> wanted
            /\ SnippetPrinted <=> wanted

\* the record of an existing file with line number 0 was displayed without
\* its line number
C9_LineZeroDropped ==
    /\ disp_pc = "returned"
    /\ ShownError.file_path = Some(<<"/", "a">>)
    /\ <<"/", "a">> \in existing_files
    /\ ShownError.line_no = Some(0)
    /\ ~LineNoPrinted /\ ~SnippetPrinted

-----------------------------------------------------------------------------
(* Properties of AzureCosmosInsertDocumentOperator.execute, under SpecCosmos *)

\* run r is the only run that has made a hook call
Isolated(r) == \A q \in Runs \ {r} : run_calls[q] = <<>>

\* C2: a run that has completed in isolation, no hook call having failed,
\* has called does_database_exist, then create_database exactly if the answer
\* was no, then does_collection_exist, then create_collection exactly if the
\* answer was no, then upsert_document once, last, with its document,
\* database and collection; what it created did not exist when it was
\* created; when both answers were yes the run has made no create call.
C2_IsolatedRunCalls ==
    \A r \in Runs :
        (run_pc[r] = "done" /\ Isolated(r)) =>
            LET a == op_args[r]
                created == {store_log[i].call : i \in 1..Len(store_log)}
            IN  /\ run_calls[r] =
                       <<CallDoesDatabaseExist(a)>>
                       \o (IF run_seen[r].database THEN <<>> ELSE <<CallCreateDatabase(a)>>)
                       \o <<CallDoesCollectionExist(a)>>
                       \o (IF run_seen[r].collection THEN <<>> ELSE <<CallCreateCollection(a)>>)
                       \o << <<"upsert_document", a.document, a.database_name,
                               a.collection_name>> >>
                /\ created \subseteq {CallCreateDatabase(a), CallCreateCollection(a)}
                /\ \A i \in 1..Len(store_log) : ~store_log[i].existed
                /\ (run_seen[r].database /\ run_seen[r].collection) =>
                       /\ store_log = <<>>
                       /\ Len(run_calls[r]) = 3

\* a run completed in isolation on a store that held its database and not
\* its collection: one create call, one upsert
C2_Witness ==
    \E r \in Runs :
        /\ run_pc[r] = "done" /\ Isolated(r)
        /\ run_seen[r].database /\ ~run_seen[r].collection
        /\ Len(run_calls[r]) = 4
        /\ Len(store_log) = 1

\* C10: a create call is issued for a resource that exists only when another
\* run has created that resource before (after the issuing run saw it
\* missing); so a run in isolation never issues a create call for a resource
\* that exists.  The state in which two runs have both seen the database
\* missing and have both called create_database is reachable (C10_Witness).
C10_CreateOfExistingOnlyAfterRace ==
    \A i \in 1..Len(store_log) :
        store_log[i].existed =>
            \E j \in 1..(i - 1) :
                /\ store_log[j].call = store_log[i].call
                /\ store_log[j].run # store_log[i].run
                /\ ~store_log[j].existed

\* two runs for the same database have both seen it missing and have both
\* called create_database, the second call for a database that exists
C10_Witness ==
    \E r, q \in Runs :
        /\ r # q
        /\ op_args[r].database_name = op_args[q].database_name
        /\ ~run_seen[r].database /\ ~run_seen[q].database
        /\ \E i, j \in 1..Len(store_log) :
            /\ i < j
            /\ store_log[i].run = r /\ store_log[j].run = q
            /\ store_log[i].call = CallCreateDatabase(op_args[r])
            /\ store_log[j].call = CallCreateDatabase(op_args[q])
            /\ ~store_log[i].existed /\ store_log[j].existed

=============================================================================
